---- MODULE Spec2Model ----
(***************************************************************************)
(* Listing controller of the property-listing API                          *)
(* (src/api/controllers/post.controller.js) over the storage layout of     *)
(* src/api/prisma/schema.prisma.                                           *)
(*                                                                         *)
(* Every handler is an async function: it runs without interruption up to  *)
(* its next `await`, so each storage call is one atomic step and other     *)
(* requests interleave between the steps.  A storage call may throw.       *)
(***************************************************************************)
EXTENDS Integers, Sequences, FiniteSets, TLC

(***************************************************************************)
(* Bounds of the model.                                                    *)
(***************************************************************************)
\* The Listings created where requests of every kind interleave.
MaxPosts == 1

\* The Listings created where addPost runs alone.
MaxCreated == 2

\* The Listings in a store that getPosts reads.
MaxListed == 2

(***************************************************************************)
(* JavaScript values.  A value is tagged: undefined, a number or a string  *)
(* (a sequence of one-character strings).                                  *)
(***************************************************************************)
NaN == -1

Undef == [t |-> "undef", n |-> 0, s |-> <<>>]

Num(n) == [t |-> "num", n |-> n, s |-> <<>>]

Str(s) == [t |-> "str", n |-> 0, s |-> s]

\* JavaScript truthiness, as used by `if (x)`, `!x`, `x ? a : b`, `x || d`.
Truthy(v) ==
  CASE v.t = "undef" -> FALSE
    [] v.t = "num"   -> v.n # 0 /\ v.n # NaN
    [] v.t = "str"   -> v.s # <<>>

Digits == <<"0", "1", "2", "3", "4", "5", "6", "7", "8", "9">>

IsDigit(c) == \E i \in 1..10 : Digits[i] = c

DigitVal(c) == (CHOOSE i \in 1..10 : Digits[i] = c) - 1

RECURSIVE LeadingDigits(_)
\* The longest prefix of s made of decimal digits.
LeadingDigits(s) ==
  IF s = <<>> \/ ~IsDigit(Head(s)) THEN <<>>
  ELSE <<Head(s)>> \o LeadingDigits(Tail(s))

RECURSIVE DecimalValue(_)
DecimalValue(ds) ==
  IF ds = <<>> THEN 0
  ELSE 10 * DecimalValue(SubSeq(ds, 1, Len(ds) - 1)) + DigitVal(ds[Len(ds)])

\* `parseInt(x) || 0`
parseIntOrZero(s) ==
  IF LeadingDigits(s) = <<>> THEN 0 ELSE DecimalValue(LeadingDigits(s))

\* parseInt(string): the number its leading digits spell, NaN when it has none.
parseInt(s) ==
  IF LeadingDigits(s) = <<>> THEN NaN ELSE DecimalValue(LeadingDigits(s))

\* parseFloat(string); the strings of the model hold no fraction or exponent.
parseFloat(s) ==
  IF LeadingDigits(s) = <<>> THEN NaN ELSE DecimalValue(LeadingDigits(s))

\* `typeof x === 'string' ? parse(x) : x`
CoerceInt(v) == IF v.t = "str" THEN parseInt(v.s) ELSE v.n

CoerceFloat(v) == IF v.t = "str" THEN parseFloat(v.s) ELSE v.n

Lower(c) ==
  CASE c = "A" -> "a"
    [] c = "B" -> "b"
    [] c = "E" -> "e"
    [] OTHER   -> c

LowerCase(s) == [i \in 1..Len(s) |-> Lower(s[i])]

\* sub occurs in s as a contiguous run.
Contains(s, sub) ==
  \E i \in 0..(Len(s) - Len(sub)) : SubSeq(s, i + 1, i + Len(sub)) = sub

(***************************************************************************)
(* Identities, tags and request bodies.                                    *)
(***************************************************************************)
Procs == {1, 2}

Users == {"u1", "u2"}

\* req.userId when no subject was attached to the request.
NoUser == "undefined"

Subjects == Users \cup {NoUser}

RENT == <<"r", "e", "n", "t">>

BUY == <<"b", "u", "y">>

APARTMENT == <<"a", "p", "t">>

HOUSE == <<"h", "o", "u", "s", "e">>

NoDetail == [present |-> FALSE, desc |-> Undef, size |-> Undef]

EmptyBody ==
  [title |-> Undef, price |-> Undef, city |-> Undef, bedroom |-> Undef,
   latitude |-> Undef, longitude |-> Undef, type |-> Undef,
   property |-> Undef, postDetail |-> NoDetail]

FlatA ==
  [EmptyBody EXCEPT !.title = Str(<<"F">>), !.price = Num(2),
                    !.city = Str(<<"B", "e">>)]

FlatB ==
  [EmptyBody EXCEPT !.title = Str(<<"G">>), !.price = Str(<<"3">>),
                    !.city = Str(<<"a", "b">>), !.bedroom = Str(<<"2">>),
                    !.latitude = Str(<<"5">>), !.longitude = Num(7),
                    !.type = Str(BUY), !.property = Str(HOUSE),
                    !.postDetail = [present |-> TRUE, desc |-> Str(<<"d">>),
                                    size |-> Str(<<"4">>)]]

\* Bodies of POST /posts: two complete ones and one for each way a required
\* field can be absent or falsy.
AddBodies ==
  {FlatA, FlatB,
   [FlatA EXCEPT !.title = Undef],
   [FlatA EXCEPT !.title = Str(<<>>)],
   [FlatB EXCEPT !.price = Undef],
   [FlatB EXCEPT !.price = Num(0)],
   [FlatA EXCEPT !.city = Undef],
   [FlatA EXCEPT !.city = Str(<<>>)]}

\* The Accounts that post Listings where requests of every kind interleave;
\* the other Account acts only on Listings it does not own.  The handlers
\* treat all Accounts alike.
Owners == {"u1"}

\* The bodies Listings are made of where requests of every kind interleave.
ListingBodies == {FlatB}

\* Bodies of PUT /posts/:id.
UpdateBodies ==
  {[EmptyBody EXCEPT !.price = Str(<<"9">>), !.latitude = Str(<<"5">>)],
   [EmptyBody EXCEPT !.postDetail = [present |-> TRUE, desc |-> Undef,
                                     size |-> Str(<<"6">>)]]}

(***************************************************************************)
(* State.                                                                  *)
(***************************************************************************)
VARIABLES
  posts,          \* collection Post: id -> record
  details,        \* collection PostDetail: set of records
  conversations,  \* collection Conversation: set of records
  nextId,         \* the next identifier the store generates
  req,            \* per request slot: the handler's locals and its response
  creator         \* history: the userId each identifier was created with

vars == <<posts, details, conversations, nextId, req, creator>>

store == <<posts, details, conversations, nextId, creator>>

NoQuery ==
  [city |-> Undef, type |-> Undef, property |-> Undef, bedroom |-> Undef,
   minPrice |-> Undef, maxPrice |-> Undef, sort |-> Undef]

\* The numeric fields of no Listing.
NoSnapshot == [price |-> 0, bedroom |-> 0, size |-> Undef]

\* A slot with no request: nothing sent, nothing answered.  History, kept
\* for the record: attempts counts the prisma.post.create calls made, created
\* the Listings they stored, and existed tells what the target Listing was
\* to the subject when the handler looked it up ("no": not stored, "owner",
\* "other"), before what its numeric fields were then, and path which query
\* of getPosts made the response.
Idle ==
  [kind |-> "none", pc |-> "done", userId |-> NoUser, id |-> 0,
   body |-> EmptyBody, query |-> NoQuery, status |-> 0, attempts |-> 0,
   created |-> 0, json |-> <<>>, existed |-> "na", path |-> "na",
   before |-> NoSnapshot]

\* One Conversation about the first Listing and one about none (propertyId
\* null, written 0).
InitConversations ==
  {[id |-> 1, user1Id |-> "u1", user2Id |-> "u2", propertyId |-> 1],
   [id |-> 2, user1Id |-> "u2", user2Id |-> "u1", propertyId |-> 0]}

\* The slot once the handler has answered: the response and the history.
\* The locals are gone; of the request, addPost's stays on record.
Answered(r, status) ==
  IF r.kind = "addPost"
  THEN [Idle EXCEPT !.kind = r.kind, !.status = status, !.body = r.body,
                    !.userId = r.userId, !.attempts = r.attempts,
                    !.created = r.created]
  ELSE [Idle EXCEPT !.kind = r.kind, !.status = status, !.existed = r.existed]

Init ==
  /\ posts = <<>>
  /\ details = {}
  /\ conversations = InitConversations
  /\ nextId = 1
  /\ req = [p \in Procs |-> Idle]
  /\ creator = <<>>

(***************************************************************************)
(* addPost                                                                 *)
(***************************************************************************)
\* The city left out of the check.
MissingRequiredNoCity(body) == ~Truthy(body.title) \/ ~Truthy(body.price)

\* `!body.title || !body.price || !body.city`
MissingRequired(body) ==
  ~Truthy(body.title) \/ ~Truthy(body.price) \/ ~Truthy(body.city)

\* `x || d` on a string field.
OrElse(v, d) == IF Truthy(v) THEN v.s ELSE d

\* `x ? parseInt(x) : null` of the detail's numeric fields.
ParseOrNull(v) == IF Truthy(v) THEN Num(CoerceInt(v)) ELSE Undef

\* The coordinate lines not commented out.
CreateDataWithCoordinates(body, tokenUserId) ==
  [title     |-> body.title.s,
   price     |-> CoerceFloat(body.price),
   city      |-> body.city.s,
   bedroom   |-> IF Truthy(body.bedroom) THEN CoerceInt(body.bedroom) ELSE 0,
   type      |-> OrElse(body.type, RENT),
   property  |-> OrElse(body.property, APARTMENT),
   latitude  |-> body.latitude,
   longitude |-> body.longitude,
   userId    |-> tokenUserId]

\* The `data` of prisma.post.create, the same in both attempts; the store
\* adds id and createdAt.  latitude and longitude are computed and not used.
CreateData(body, tokenUserId) ==
  [title     |-> body.title.s,
   price     |-> CoerceFloat(body.price),
   city      |-> body.city.s,
   bedroom   |-> IF Truthy(body.bedroom) THEN CoerceInt(body.bedroom) ELSE 0,
   type      |-> OrElse(body.type, RENT),
   property  |-> OrElse(body.property, APARTMENT),
   latitude  |-> Undef,
   longitude |-> Undef,
   userId    |-> tokenUserId]

\* The nested `postDetail: { create: ... }` of prisma.post.create.
CreateDetailData(body) ==
  [desc |-> Str(OrElse(body.postDetail.desc, <<>>)),
   size |-> ParseOrNull(body.postDetail.size)]

\* The record the store holds after a create with `data`.
Stored(data, id) ==
  [id |-> id, createdAt |-> id, userId |-> data.userId, title |-> data.title,
   price |-> data.price, city |-> data.city, bedroom |-> data.bedroom,
   type |-> data.type, property |-> data.property,
   latitude |-> data.latitude, longitude |-> data.longitude]

\* prisma.post.create accepts the data: userId is a required field.
CreateAccepted(data) == data.userId # NoUser /\ data.price # NaN

\* The effect of one successful prisma.post.create (Listing and nested Detail
\* in one call).
WriteListing(body, tokenUserId) ==
  /\ CreateAccepted(CreateData(body, tokenUserId))
  /\ posts' = (nextId :> Stored(CreateData(body, tokenUserId), nextId)) @@ posts
  /\ details' = IF body.postDetail.present
                THEN details \cup
                       {[postId |-> nextId] @@ CreateDetailData(body)}
                ELSE details
  /\ creator' = (nextId :> tokenUserId) @@ creator
  /\ nextId' = nextId + 1
  /\ UNCHANGED conversations

\* addPost up to the end of its first prisma.post.create: validation answers
\* 400; the create throws before writing, or it writes and the handler
\* answers 201, or it writes and the rest of the try block throws.
AddPostCreate(p, tokenUserId, body) ==
  /\ req[p].pc = "done"
  /\ LET r == [Idle EXCEPT !.kind = "addPost", !.userId = tokenUserId,
                           !.body = body]
     IN IF MissingRequired(body)
        THEN /\ req' = [req EXCEPT ![p] = Answered(r, 400)]
             /\ UNCHANGED store
        ELSE \/ /\ req' = [req EXCEPT ![p] =
                     [r EXCEPT !.attempts = 1, !.pc = "retry"]]
                /\ UNCHANGED store
             \/ /\ WriteListing(body, tokenUserId)
                /\ req' = [req EXCEPT ![p] =
                     Answered([r EXCEPT !.attempts = 1, !.created = 1], 201)]
             \/ /\ WriteListing(body, tokenUserId)
                /\ req' = [req EXCEPT ![p] =
                     [r EXCEPT !.attempts = 1, !.created = 1, !.pc = "retry"]]

\* A catch block that tries once more before it gives up.
AddPostRetryAgain(p) ==
  /\ req[p].kind = "addPost" /\ req[p].pc = "retry"
  /\ \/ /\ req' = [req EXCEPT ![p] =
                IF req[p].attempts < 2
                THEN [req[p] EXCEPT !.attempts = @ + 1]
                ELSE Answered([req[p] EXCEPT !.attempts = @ + 1], 500)]
        /\ UNCHANGED store
     \/ /\ WriteListing(req[p].body, req[p].userId)
        /\ req' = [req EXCEPT ![p] =
                Answered([req[p] EXCEPT !.attempts = @ + 1,
                                        !.created = @ + 1], 201)]

\* The catch block: the second prisma.post.create; what it throws reaches the
\* outer catch, which answers 500.
AddPostRetry(p) ==
  /\ req[p].kind = "addPost" /\ req[p].pc = "retry"
  /\ \/ /\ req' = [req EXCEPT ![p] =
                Answered([req[p] EXCEPT !.attempts = 2], 500)]
        /\ UNCHANGED store
     \/ /\ WriteListing(req[p].body, req[p].userId)
        /\ req' = [req EXCEPT ![p] =
                Answered([req[p] EXCEPT !.attempts = 2, !.created = @ + 1], 201)]
     \/ /\ WriteListing(req[p].body, req[p].userId)
        /\ req' = [req EXCEPT ![p] =
                Answered([req[p] EXCEPT !.attempts = 2, !.created = @ + 1], 500)]

(***************************************************************************)
(* updatePost and deletePost                                               *)
(***************************************************************************)
\* The identifiers requests name: those the store generates and one more.
Ids == 1..(MaxPosts + 1)

Exists(id) == id \in DOMAIN posts

\* History: what Listing id is to the subject.
Relation(id, tokenUserId) ==
  IF ~Exists(id) THEN "no"
  ELSE IF posts[id].userId = tokenUserId THEN "owner" ELSE "other"

\* The comparison left out.
IsOwnerUnchecked(existingPost, tokenUserId) == TRUE

\* `existingPost.userId !== tokenUserId` is false.
IsOwner(existingPost, tokenUserId) == existingPost.userId = tokenUserId

\* A mismatched owner reported as not found.
OwnershipCheckHides(existingPost, tokenUserId) ==
  IF existingPost = <<>> THEN 404
  ELSE IF existingPost[1].userId # tokenUserId THEN 404
  ELSE 0

\* The null check left out: a missing record is let through with no subject.
OwnershipCheckNoNull(existingPost, tokenUserId) ==
  IF existingPost = <<>> THEN (IF tokenUserId = NoUser THEN 0 ELSE 403)
  ELSE IF existingPost[1].userId # tokenUserId THEN 403
  ELSE 0

\* The status the ownership check answers with, 0 when it lets the request
\* through.  existingPost is <<>> for null, else <<the record>>.
OwnershipCheck(existingPost, tokenUserId) ==
  IF existingPost = <<>> THEN 404
  ELSE IF ~IsOwner(existingPost[1], tokenUserId) THEN 403
  ELSE 0

\* prisma.post.findUnique({ where: { id } })
FindUnique(id) == IF Exists(id) THEN <<posts[id]>> ELSE <<>>

\* A field of an update's data: undefined leaves the stored value.
SetStr(v, old) == IF v.t = "undef" THEN old ELSE v.s

SetVal(v, old) == IF v.t = "undef" THEN old ELSE v

\* `x ? parseInt(x) : undefined` of the Listing's numeric fields.
SetInt(v, old) == IF Truthy(v) THEN CoerceInt(v) ELSE old

\* The Listing after prisma.post.update with the body's data.
UpdatedListing(old, body) ==
  [old EXCEPT !.title = SetStr(body.title, @),
              !.price = SetInt(body.price, @),
              !.city = SetStr(body.city, @),
              !.bedroom = SetInt(body.bedroom, @),
              !.latitude = SetVal(body.latitude, @),
              !.longitude = SetVal(body.longitude, @),
              !.type = SetStr(body.type, @),
              !.property = SetStr(body.property, @)]

\* prisma.post.update accepts the data: numbers are numbers, and latitude
\* and longitude are String? in the schema.
UpdateAccepted(body) ==
  /\ Truthy(body.price) => CoerceInt(body.price) # NaN
  /\ Truthy(body.bedroom) => CoerceInt(body.bedroom) # NaN
  /\ body.latitude.t # "num"
  /\ body.longitude.t # "num"

DetailOf(id) == {d \in details : d.postId = id}

\* The size the collection ds holds for Listing id: null when the Detail has
\* none or the Listing has no Detail.
SizeIn(ds, id) ==
  IF \E d \in ds : d.postId = id
  THEN (CHOOSE d \in ds : d.postId = id).size
  ELSE Undef

\* History: the numeric fields stored for Listing id.
Snapshot(id) ==
  IF Exists(id)
  THEN [price |-> posts[id].price, bedroom |-> posts[id].bedroom,
        size |-> SizeIn(details, id)]
  ELSE NoSnapshot

\* What an Int? field holds once written: NaN has no JSON form and reaches
\* the store as null, when the call does not throw.
StoredInt(v) == IF v = Num(NaN) THEN Undef ELSE v

\* The `update` branch of prisma.postDetail.upsert.
UpsertUpdate(d, postDetail) ==
  [d EXCEPT !.desc = SetVal(postDetail.desc, @),
            !.size = StoredInt(ParseOrNull(postDetail.size))]

\* The `create` branch of prisma.postDetail.upsert.
UpsertCreate(id, postDetail) ==
  [postId |-> id, desc |-> Str(OrElse(postDetail.desc, <<>>)),
   size |-> StoredInt(ParseOrNull(postDetail.size))]

\* updatePost up to the end of prisma.post.findUnique and the ownership check.
UpdatePostFind(p, tokenUserId, id, body) ==
  /\ req[p].pc = "done"
  /\ LET r == [Idle EXCEPT !.kind = "updatePost", !.userId = tokenUserId,
                           !.id = id, !.body = body,
                           !.existed = Relation(id, tokenUserId),
                           !.before = Snapshot(id)]
         st == OwnershipCheck(FindUnique(id), tokenUserId)
     IN \/ req' = [req EXCEPT ![p] = Answered(r, 500)]
        \/ req' = [req EXCEPT ![p] =
             IF st # 0 THEN Answered(r, st)
             ELSE IF body.postDetail.present THEN [r EXCEPT !.pc = "upsert"]
             ELSE [r EXCEPT !.pc = "update"]]
  /\ UNCHANGED store

\* prisma.postDetail.upsert({ where: { postId: id }, ... })
UpdatePostUpsert(p) ==
  /\ req[p].kind = "updatePost" /\ req[p].pc = "upsert"
  /\ \/ /\ req' = [req EXCEPT ![p] = Answered(req[p], 500)]
        /\ UNCHANGED store
     \/ /\ req' = [req EXCEPT ![p].pc = "update"]
        /\ details' =
             IF DetailOf(req[p].id) # {}
             THEN {IF d.postId = req[p].id
                   THEN UpsertUpdate(d, req[p].body.postDetail) ELSE d :
                   d \in details}
             ELSE details \cup {UpsertCreate(req[p].id, req[p].body.postDetail)}
        /\ UNCHANGED <<posts, conversations, nextId, creator>>

\* prisma.post.update({ where: { id }, data, include }); it throws when the
\* record is gone or the data is refused.
UpdatePostUpdate(p) ==
  /\ req[p].kind = "updatePost" /\ req[p].pc = "update"
  /\ \/ /\ req' = [req EXCEPT ![p] = Answered(req[p], 500)]
        /\ UNCHANGED store
     \/ /\ Exists(req[p].id) /\ UpdateAccepted(req[p].body)
        /\ posts' = [posts EXCEPT
             ![req[p].id] = UpdatedListing(@, req[p].body)]
        /\ req' = [req EXCEPT ![p] = Answered(req[p], 200)]
        /\ UNCHANGED <<details, conversations, nextId, creator>>

\* deletePost up to the end of prisma.post.findUnique and the ownership check.
DeletePostFind(p, tokenUserId, id) ==
  /\ req[p].pc = "done"
  /\ LET r == [Idle EXCEPT !.kind = "deletePost", !.userId = tokenUserId,
                           !.id = id,
                           !.existed = Relation(id, tokenUserId)]
         st == OwnershipCheck(FindUnique(id), tokenUserId)
     IN \/ req' = [req EXCEPT ![p] = Answered(r, 500)]
        \/ req' = [req EXCEPT ![p] =
             IF st # 0 THEN Answered(r, st)
             ELSE [r EXCEPT !.pc = "delete"]]
  /\ UNCHANGED store

\* A delete that leaves the Conversations as they are.
RemoveNoAction(id) ==
  /\ posts' = [i \in DOMAIN posts \ {id} |-> posts[i]]
  /\ details' = details \ DetailOf(id)
  /\ conversations' = conversations

\* The collections after prisma.post.delete({ where: { id } }): the Detail
\* goes with the Listing (onDelete: Cascade); Conversation.property is an
\* optional relation with no onDelete, whose default is SetNull.
Remove(id) ==
  /\ posts' = [i \in DOMAIN posts \ {id} |-> posts[i]]
  /\ details' = details \ DetailOf(id)
  /\ conversations' =
       {IF c.propertyId = id THEN [c EXCEPT !.propertyId = 0] ELSE c :
        c \in conversations}

\* prisma.post.delete; it throws when the record is gone.
DeletePostDelete(p) ==
  /\ req[p].kind = "deletePost" /\ req[p].pc = "delete"
  /\ \/ /\ req' = [req EXCEPT ![p] = Answered(req[p], 500)]
        /\ UNCHANGED store
     \/ /\ Exists(req[p].id)
        /\ Remove(req[p].id)
        /\ req' = [req EXCEPT ![p] = Answered(req[p], 200)]
        /\ UNCHANGED <<nextId, creator>>

(***************************************************************************)
(* getPosts                                                                *)
(***************************************************************************)
NoWhere ==
  [city     |-> [set |-> FALSE, contains |-> <<>>],
   type     |-> [set |-> FALSE, equals |-> <<>>],
   property |-> [set |-> FALSE, equals |-> <<>>],
   bedroom  |-> [set |-> FALSE, gte |-> 0],
   price    |-> [set |-> FALSE, hasGte |-> FALSE, gte |-> 0,
                 hasLte |-> FALSE, lte |-> 0]]

\* price.lte taken from minPrice.
BuildWhereMaxFromMin(query) ==
  [city     |-> IF Truthy(query.city)
                THEN [set |-> TRUE, contains |-> query.city.s]
                ELSE NoWhere.city,
   type     |-> IF Truthy(query.type)
                THEN [set |-> TRUE, equals |-> query.type.s]
                ELSE NoWhere.type,
   property |-> IF Truthy(query.property)
                THEN [set |-> TRUE, equals |-> query.property.s]
                ELSE NoWhere.property,
   bedroom  |-> IF Truthy(query.bedroom)
                THEN [set |-> TRUE, gte |-> parseInt(query.bedroom.s)]
                ELSE NoWhere.bedroom,
   price    |-> IF Truthy(query.minPrice) \/ Truthy(query.maxPrice)
                THEN [set    |-> TRUE,
                      hasGte |-> Truthy(query.minPrice),
                      gte    |-> IF Truthy(query.minPrice)
                                 THEN parseInt(query.minPrice.s) ELSE 0,
                      hasLte |-> Truthy(query.maxPrice),
                      lte    |-> IF Truthy(query.maxPrice)
                                 THEN parseInt(query.minPrice.s) ELSE 0]
                ELSE NoWhere.price]

\* The `where` clause getPosts builds from req.query (values are strings).
BuildWhere(query) ==
  [city     |-> IF Truthy(query.city)
                THEN [set |-> TRUE, contains |-> query.city.s]
                ELSE NoWhere.city,
   type     |-> IF Truthy(query.type)
                THEN [set |-> TRUE, equals |-> query.type.s]
                ELSE NoWhere.type,
   property |-> IF Truthy(query.property)
                THEN [set |-> TRUE, equals |-> query.property.s]
                ELSE NoWhere.property,
   bedroom  |-> IF Truthy(query.bedroom)
                THEN [set |-> TRUE, gte |-> parseInt(query.bedroom.s)]
                ELSE NoWhere.bedroom,
   price    |-> IF Truthy(query.minPrice) \/ Truthy(query.maxPrice)
                THEN [set    |-> TRUE,
                      hasGte |-> Truthy(query.minPrice),
                      gte    |-> IF Truthy(query.minPrice)
                                 THEN parseInt(query.minPrice.s) ELSE 0,
                      hasLte |-> Truthy(query.maxPrice),
                      lte    |-> IF Truthy(query.maxPrice)
                                 THEN parseInt(query.maxPrice.s) ELSE 0]
                ELSE NoWhere.price]

\* a >= b of two numbers, false when either is NaN.  A query with NaN in it
\* either throws (the primary call may always throw) or selects by this.
Gte(a, b) == a # NaN /\ b # NaN /\ a >= b

\* The Listings a `where` clause selects: contains with mode 'insensitive',
\* equality, gte and lte.
Matches(where, post) ==
  /\ where.city.set =>
       Contains(LowerCase(post.city), LowerCase(where.city.contains))
  /\ where.type.set => post.type = where.type.equals
  /\ where.property.set => post.property = where.property.equals
  /\ where.bedroom.set => Gte(post.bedroom, where.bedroom.gte)
  /\ (where.price.set /\ where.price.hasGte) => Gte(post.price, where.price.gte)
  /\ (where.price.set /\ where.price.hasLte) => Gte(where.price.lte, post.price)

RECURSIVE NewestFirst(_)
\* orderBy: { createdAt: 'desc' } of a set of Listings.
NewestFirst(ps) ==
  IF ps = {} THEN <<>>
  ELSE LET newest == CHOOSE x \in ps : \A y \in ps : y.createdAt <= x.createdAt
       IN <<newest>> \o NewestFirst(ps \ {newest})

Listings == {posts[i] : i \in DOMAIN posts}

\* The sentinel ownerInfo has id 'unknown'.
UnknownOwner == "unknown"

\* The shaped Listing of the primary path: ownerInfo from the joined Account,
\* the sentinel when there is none.
Transformed(post) ==
  [id |-> post.id,
   ownerInfo |-> IF post.userId \in Users THEN post.userId ELSE UnknownOwner]

\* The shaped Listing of the fallback path.
Simple(post) == [id |-> post.id, ownerInfo |-> UnknownOwner]

\* The Listings the fallback prisma.post.findMany selects with `where`: it is
\* called with select and orderBy only.
FallbackSelected(where) == Listings

\* getPosts up to the end of its first prisma.post.findMany.
GetPostsPrimary(p, query) ==
  /\ req[p].pc = "done"
  /\ LET r == [Idle EXCEPT !.kind = "getPosts", !.query = query]
         where == BuildWhere(query)
         found == NewestFirst({x \in Listings : Matches(where, x)})
     IN \/ req' = [req EXCEPT ![p] = [r EXCEPT !.pc = "fallback"]]
        \/ req' = [req EXCEPT ![p] =
             [r EXCEPT !.status = 200, !.path = "primary",
                       !.json = [i \in 1..Len(found) |->
                                   Transformed(found[i])]]]
  /\ UNCHANGED store

\* An outer catch that reports the fault.
GetPostsCatchStatus500 == 400 + 100

\* The status the outer catch of getPosts answers with.
GetPostsCatchStatus == 200

\* The inner catch: the second prisma.post.findMany; what it throws reaches the
\* outer catch, which answers with [].
GetPostsFallback(p) ==
  /\ req[p].kind = "getPosts" /\ req[p].pc = "fallback"
  /\ LET found == NewestFirst(FallbackSelected(BuildWhere(req[p].query)))
     IN \/ req' = [req EXCEPT ![p].pc = "done",
                              ![p].status = GetPostsCatchStatus,
                              ![p].path = "empty", ![p].json = <<>>]
        \/ req' = [req EXCEPT ![p].pc = "done", ![p].status = 200,
                              ![p].path = "fallback",
                              ![p].json = [i \in 1..Len(found) |->
                                             Simple(found[i])]]
  /\ UNCHANGED store

(***************************************************************************)
(* getPost                                                                 *)
(***************************************************************************)
\* The `user` a query joins to a Listing is an Account, null when no Account
\* has the Listing's userId.
Joined(post) == post.userId \in Users

\* The shaped Listing of getPost: ownerInfo is read off post.user.
ShapedOne(post) == [id |-> post.id, ownerInfo |-> post.userId]

\* getPost: prisma.post.findUnique with the joins, 404 for null, else the
\* shaping and 200; what the lookup or the shaping throws (post.user.id of a
\* null user) reaches the catch, which answers 500.
GetPost(p, id) ==
  /\ req[p].pc = "done"
  /\ LET found == FindUnique(id)
         r == [Idle EXCEPT !.kind = "getPost",
                           !.existed = IF found = <<>> THEN "no"
                                       ELSE IF Joined(found[1]) THEN "joined"
                                       ELSE "unjoined"]
     IN \/ req' = [req EXCEPT ![p] = [r EXCEPT !.status = 500, !.path = "fault"]]
        \/ req' = [req EXCEPT ![p] =
             IF found = <<>> THEN [r EXCEPT !.status = 404, !.path = "lookup"]
             ELSE IF Joined(found[1])
             THEN [r EXCEPT !.status = 200, !.path = "lookup",
                            !.json = <<ShapedOne(found[1])>>]
             ELSE [r EXCEPT !.status = 500, !.path = "shaping"]]
  /\ UNCHANGED store

\* Every request kind, two requests at a time; the creates stop at MaxPosts
\* Listings.
Next ==
  \E p \in Procs :
    \/ \E u \in Owners, b \in ListingBodies :
         AddPostCreate(p, u, b) /\ nextId' <= MaxPosts + 1
    \/ AddPostRetry(p) /\ nextId' <= MaxPosts + 1
    \/ \E u \in Subjects, id \in Ids, b \in UpdateBodies :
         UpdatePostFind(p, u, id, b)
    \/ UpdatePostUpsert(p)
    \/ UpdatePostUpdate(p)
    \/ \E u \in Subjects, id \in Ids : DeletePostFind(p, u, id)
    \/ DeletePostDelete(p)

Spec == Init /\ [][Next]_vars

(***************************************************************************)
(* Ownership: C1, C2, C3                                                   *)
(***************************************************************************)
\* What is stored of Listing id: the record, if any, and its Detail.
ListingView(id) == <<FindUnique(id), DetailOf(id)>>

Mutators == {"updatePost", "deletePost"}

\* A step of slot p on behalf of an updatePost or deletePost request.
MutatorStep(p) ==
  /\ req'[p] # req[p]
  /\ \/ req[p].kind \in Mutators /\ req[p].pc # "done"
     \/ req'[p].kind \in Mutators /\ req[p].pc = "done"

\* C1: a step of updatePost or deletePost changes a Listing's record, its
\* Detail or its existence only for the Listing the request names and only
\* when the request's subject is that Listing's userId; the userId a Listing
\* was created with is the one it keeps.
C1_OwnerOnlyMutation ==
  [][\/ posts' = posts /\ details' = details
     \/ /\ \A p \in Procs : MutatorStep(p) =>
             \A id \in Ids : ListingView(id)' # ListingView(id) =>
                /\ req[p].pc # "done"
                /\ id = req[p].id
                /\ req[p].userId = creator[id]
        /\ \A id \in DOMAIN posts \cap DOMAIN posts' :
             posts'[id].userId = posts[id].userId
        /\ \A id \in DOMAIN posts' : posts'[id].userId = creator'[id]
    ]_vars

\* An owner's update went through while another subject's request on the
\* same store was refused.
C1_Witness ==
  /\ \E p \in Procs : req[p].kind = "updatePost" /\ req[p].status = 200
  /\ \E p \in Procs : req[p].kind \in Mutators /\ req[p].status = 403
  /\ \E id \in DOMAIN posts : posts[id].price = 9

\* C2 as claimed: a request on a stored Listing by a subject other than its
\* owner is answered 403.
C2_NonOwnerAlways403 ==
  \A p \in Procs :
    (req[p].kind \in Mutators /\ req[p].pc = "done" /\ req[p].existed = "other")
      => req[p].status = 403

\* C2: a request on a stored Listing by a subject other than its owner is
\* answered 403, or 500 when the lookup throws; never 404 and never 200.
C2_NonOwner403Or500 ==
  \A p \in Procs :
    (req[p].kind \in Mutators /\ req[p].existed = "other")
      => req[p].pc = "done" /\ req[p].status \in {403, 500}

C2_Witness ==
  /\ \E p \in Procs : /\ req[p].kind = "updatePost" /\ req[p].existed = "other"
                      /\ req[p].status = 403
  /\ \E p \in Procs : /\ req[p].kind = "deletePost" /\ req[p].existed = "other"
                      /\ req[p].status = 403

\* The lookup step of an updatePost or deletePost request of slot p, for an
\* identifier that matches no stored Listing.
LookupOfMissing(p) ==
  /\ req[p].pc = "done" /\ req'[p] # req[p]
  /\ req'[p].kind \in Mutators /\ req'[p].existed = "no"

\* C3 as claimed: a request for an identifier that matches no stored Listing
\* is answered 404 whatever the subject, and writes nothing.
C3_MissingAlways404 ==
  [][\A p \in Procs : LookupOfMissing(p) =>
       /\ req'[p].pc = "done" /\ req'[p].status = 404
       /\ UNCHANGED store
    ]_vars

\* C3: a request for an identifier that matches no stored Listing is answered
\* 404, or 500 when the lookup throws, whatever the subject (absent
\* included), and writes nothing.
C3_Missing404Or500 ==
  [][\A p \in Procs : LookupOfMissing(p) =>
       /\ req'[p].pc = "done" /\ req'[p].status \in {404, 500}
       /\ UNCHANGED store
    ]_vars

\* Both handlers answered 404 for an identifier that was not stored, one of
\* them after the Listing had been deleted.
C3_Witness ==
  /\ \E p \in Procs : /\ req[p].kind = "updatePost" /\ req[p].existed = "no"
                      /\ req[p].status = 404
  /\ \E p \in Procs : /\ req[p].kind = "deletePost" /\ req[p].existed = "no"
                      /\ req[p].status = 404
  /\ DOMAIN creator # DOMAIN posts

(***************************************************************************)
(* addPost alone, over every body; the route is behind the verifier, so    *)
(* the subject is an Account.                                              *)
(***************************************************************************)
NextCreate ==
  \E p \in Procs :
    \/ \E u \in Users, b \in AddBodies :
         AddPostCreate(p, u, b) /\ nextId' <= MaxCreated + 1
    \/ AddPostRetry(p) /\ nextId' <= MaxCreated + 1

SpecCreate == Init /\ [][NextCreate]_vars

(***************************************************************************)
(* Creation: C8, C9, C10                                                   *)
(***************************************************************************)
Required(body) == {body.title, body.price, body.city}

\* A required field is not in the body at all.
Absent(body) == Undef \in Required(body)

\* A required field is not in the body, or is the empty string or the number 0.
AbsentOrFalsy(body) == Required(body) \cap {Undef, Str(<<>>), Num(0)} # {}

\* The Listing a step stored is one new record, with userId u.
StoredFor(u) ==
  /\ DOMAIN posts' = DOMAIN posts \cup {nextId}
  /\ nextId \notin DOMAIN posts
  /\ posts'[nextId].userId = u

\* A step of addPost in slot p: the first one of a request, or its retry.
AddPostStep(p) ==
  /\ req'[p] # req[p]
  /\ req'[p].kind = "addPost"
  /\ req[p].pc = "done" \/ req[p].pc = "retry"

\* What C8 says of the steps of addPost, `missing` being the bodies it reads
\* as having a required field "missing from the body".
AddPostContract(missing) ==
  \A p \in Procs : AddPostStep(p) =>
    /\ req'[p].status = 400 <=> req'[p].body \in missing
    /\ req'[p].status = 400 => UNCHANGED store /\ req'[p].attempts = 0
    /\ req'[p].status = 201 => StoredFor(req'[p].userId)
    /\ req'[p].status \in {0, 201, 400, 500}

\* C8 as claimed: addPost answers 400 exactly when title, price or city is
\* missing from the body, then without a storage call or a stored record; a
\* 201 comes with a stored Listing whose userId is the subject.
C8_400IffAbsent ==
  [][AddPostContract({b \in AddBodies : Absent(b)})]_vars

\* C8: addPost answers 400 exactly when title, price or city is missing from
\* the body or is falsy (the empty string, the number 0), then without a
\* storage call or a stored record; a 201 comes with a stored Listing whose
\* userId is the subject.
C8_400IffAbsentOrFalsy ==
  [][AddPostContract({b \in AddBodies : AbsentOrFalsy(b)})]_vars

\* One request was refused for a price of 0 before any storage call, and
\* another one stored its Listing.
C8_Witness ==
  /\ \E p \in Procs : /\ req[p].kind = "addPost" /\ req[p].status = 400
                      /\ req[p].body.price = Num(0) /\ req[p].attempts = 0
  /\ \E p \in Procs : /\ req[p].kind = "addPost" /\ req[p].status = 201
  /\ posts # <<>>

\* C9: where addPost is the only writer, no stored Listing has a latitude or a
\* longitude, whatever the bodies supplied.
C9_NoCoordinatesStored ==
  \A id \in DOMAIN posts :
    posts[id].latitude = Undef /\ posts[id].longitude = Undef

\* Bodies with both coordinates were stored, one by the first attempt and one
\* by the retry.
C9_Witness ==
  /\ \E p \in Procs : /\ req[p].kind = "addPost" /\ req[p].status = 201
                      /\ req[p].attempts = 1
                      /\ Truthy(req[p].body.latitude)
                      /\ Truthy(req[p].body.longitude)
  /\ \E p \in Procs : /\ req[p].kind = "addPost" /\ req[p].status = 201
                      /\ req[p].attempts = 2
                      /\ Truthy(req[p].body.latitude)
                      /\ Truthy(req[p].body.longitude)
  /\ Cardinality(DOMAIN posts) = 2

\* C10: addPost makes at most two create attempts; it answers 500 only after
\* two of them failed, it retries after the first one failed, and it answers
\* 201 when an attempt succeeds.
C10_RetryOnce ==
  \A p \in Procs : req[p].kind = "addPost" =>
    /\ req[p].attempts \in 0..2
    /\ req[p].status \in {0, 201, 400, 500}
    /\ req[p].status = 500 => req[p].attempts = 2
    /\ req[p].status = 201 => req[p].attempts \in {1, 2}
    /\ req[p].status = 400 => req[p].attempts = 0
    /\ req[p].pc = "retry" <=> (req[p].status = 0 /\ req[p].attempts = 1)
    /\ req[p].pc = "done" <=> req[p].status # 0

\* One request failed twice and answered 500; another answered 201 from its
\* retry.
C10_Witness ==
  /\ \E p \in Procs : /\ req[p].kind = "addPost" /\ req[p].status = 500
                      /\ req[p].attempts = 2
  /\ \E p \in Procs : /\ req[p].kind = "addPost" /\ req[p].status = 201
                      /\ req[p].attempts = 2

(***************************************************************************)
(* getPosts alone, over the stores addPost can leave and a set of queries. *)
(***************************************************************************)
\* The stores MaxListed or fewer creates leave.
ListStores ==
  UNION {{[i \in 1..n |-> Stored(CreateData(f[i][1], f[i][2]), i)] :
          f \in [1..n -> {FlatA, FlatB} \X Users]} : n \in 0..MaxListed}

QueryValues ==
  [city     |-> {Str(<<>>), Str(<<"b">>), Str(<<"B", "E">>), Str(<<"x">>)},
   type     |-> {Str(<<>>), Str(BUY)},
   property |-> {Str(HOUSE)},
   bedroom  |-> {Str(<<"0">>), Str(<<"1">>), Str(<<"x">>)},
   minPrice |-> {Str(<<>>), Str(<<"3">>)},
   maxPrice |-> {Str(<<"2">>), Str(<<"2", "x">>), Str(<<"y">>)},
   sort     |-> {Str(<<"a">>)}]

QueryKeys == DOMAIN QueryValues

QueryPairs == UNION {{<<k, v>> : v \in QueryValues[k]} : k \in QueryKeys}

\* The query mappings with at most two keys present.
Queries ==
  {NoQuery} \cup
  {[[NoQuery EXCEPT ![a[1]] = a[2]] EXCEPT ![b[1]] = b[2]] :
     a \in QueryPairs, b \in QueryPairs}

InitList ==
  /\ posts \in ListStores
  /\ details = {}
  /\ conversations = InitConversations
  /\ nextId = Len(posts) + 1
  /\ req = [p \in Procs |-> Idle]
  /\ creator = [i \in DOMAIN posts |-> posts[i].userId]

\* One request in each behaviour.
NextList ==
  \/ \E q \in Queries : req[1].kind = "none" /\ GetPostsPrimary(1, q)
  \/ GetPostsFallback(1)

SpecList == InitList /\ [][NextList]_vars

(***************************************************************************)
(* Listing: C4, C5, C6, C7                                                 *)
(***************************************************************************)
\* The identifiers in a response, as a set.
JsonIds(json) == {json[i].id : i \in 1..Len(json)}

\* What C4 says the filter is, `given` being the values it reads as a "key
\* present": every recognized key that is given holds of the Listing.
FilterHolds(given, query, post) ==
  /\ query.city \in given =>
       Contains(LowerCase(post.city), LowerCase(query.city.s))
  /\ query.type \in given => post.type = query.type.s
  /\ query.property \in given => post.property = query.property.s
  /\ query.bedroom \in given =>
       LET n == parseInt(query.bedroom.s) IN n # NaN /\ post.bedroom >= n
  /\ query.minPrice \in given =>
       LET n == parseInt(query.minPrice.s) IN n # NaN /\ n <= post.price
  /\ query.maxPrice \in given =>
       LET n == parseInt(query.maxPrice.s) IN n # NaN /\ post.price <= n

\* The values of a key that is in the query.
Present == UNION {QueryValues[k] : k \in QueryKeys}

\* The values of a key that is in the query with more than the empty string.
PresentNotEmpty == Present \ {Str(<<>>)}

\* What C4 says of the response the primary query makes.
FilterContract(given) ==
  \A p \in Procs : (req[p].kind = "getPosts" /\ req[p].path = "primary") =>
    JsonIds(req[p].json) =
      {x.id : x \in {y \in Listings : FilterHolds(given, req[p].query, y)}}

\* C4 as claimed: the predicate getPosts builds selects a Listing exactly
\* when every recognized key present in the query holds of it.
C4_FilterByPresentKeys == FilterContract(Present)

\* C4: the predicate getPosts builds selects a Listing exactly when every
\* recognized key present in the query with a value other than the empty
\* string holds of it; a key with the empty string constrains nothing, like
\* an absent or unrecognized one, and the empty mapping selects everything.
C4_FilterByNonEmptyKeys == FilterContract(PresentNotEmpty)

\* A city filter in another case kept one Listing of two.
C4_Witness ==
  /\ req[1].kind = "getPosts" /\ req[1].path = "primary"
  /\ req[1].query.city = Str(<<"B", "E">>)
  /\ Len(req[1].json) = 1 /\ Cardinality(Listings) = 2

\* C5 as claimed: the response the fallback query makes holds exactly the
\* Listings the query mapping selects, newest first, each with the sentinel
\* ownerInfo.
C5_FallbackFilters ==
  \A p \in Procs : (req[p].kind = "getPosts" /\ req[p].path = "fallback") =>
    LET found == NewestFirst({x \in Listings :
                                Matches(BuildWhere(req[p].query), x)})
    IN req[p].json = [i \in 1..Len(found) |-> Simple(found[i])]

\* C6: every answered getPosts request has status 200, and the one whose two
\* queries both threw has the empty sequence.
C6_Always200 ==
  \A p \in Procs : (req[p].kind = "getPosts" /\ req[p].pc = "done") =>
    /\ req[p].status = 200
    /\ req[p].path \in {"primary", "fallback", "empty"}
    /\ req[p].path = "empty" => req[p].json = <<>>

\* Both queries threw on a store that holds Listings.
C6_Witness ==
  /\ req[1].kind = "getPosts" /\ req[1].path = "empty"
  /\ req[1].status = 200 /\ req[1].json = <<>>
  /\ Listings # {}

\* A value that is given and is not a decimal number.
NotNumeric(v) == v # Undef /\ v.s # <<>> /\ \E i \in 1..Len(v.s) : ~IsDigit(v.s[i])

\* A value that does not even start with a digit.
NoNumber(v) == v # Undef /\ v.s # <<>> /\ ~IsDigit(v.s[1])

NotNumericQuery(query) ==
  NotNumeric(query.bedroom) \/ NotNumeric(query.minPrice)
    \/ NotNumeric(query.maxPrice)

\* C7 as claimed: a getPosts request with a non-numeric bedroom, minPrice or
\* maxPrice is answered with an error, not with a list.
C7_ParseFailurePropagates ==
  \A p \in Procs :
    (req[p].kind = "getPosts" /\ req[p].pc = "done"
       /\ NotNumericQuery(req[p].query))
      => req[p].status # 200

\* C7: a getPosts request with a non-numeric bedroom, minPrice or maxPrice
\* meets no parse failure: parseInt gives the number the value starts with,
\* or NaN when it starts with none, and the request is answered 200 with a
\* list like any other.
C7_NonNumericAnswered200 ==
  \A p \in Procs :
    (req[p].kind = "getPosts" /\ req[p].pc = "done"
       /\ NotNumericQuery(req[p].query))
      => /\ req[p].status = 200
         /\ LET q == req[p].query
                where == BuildWhere(q)
            IN /\ NotNumeric(q.bedroom) =>
                    (where.bedroom.gte = NaN <=> NoNumber(q.bedroom))
               /\ NotNumeric(q.minPrice) =>
                    (where.price.gte = NaN <=> NoNumber(q.minPrice))
               /\ NotNumeric(q.maxPrice) =>
                    (where.price.lte = NaN <=> NoNumber(q.maxPrice))

\* A request whose bedroom is "x" got a list from the primary query, on a
\* store that holds Listings.
C7_Witness ==
  /\ req[1].kind = "getPosts" /\ req[1].path = "primary"
  /\ req[1].status = 200
  /\ req[1].query.bedroom = Str(<<"x">>)
  /\ Listings # {}

(***************************************************************************)
(* updatePost alone, one request after the other, on a stored Listing with *)
(* or without a Detail, over bodies with numeric fields absent, numeric    *)
(* and not numeric.                                                        *)
(***************************************************************************)
PatchDetails ==
  {NoDetail,
   [present |-> TRUE, desc |-> Str(<<"e">>), size |-> Undef],
   [present |-> TRUE, desc |-> Undef, size |-> Str(<<"6">>)],
   [present |-> TRUE, desc |-> Undef, size |-> Str(<<"x">>)]}

PatchBodies ==
  {[EmptyBody EXCEPT !.price = pr, !.bedroom = be, !.postDetail = pd] :
     pr \in {Undef, Str(<<"9">>), Str(<<"9", "x">>), Str(<<"x">>)},
     be \in {Undef, Str(<<"1">>)},
     pd \in PatchDetails}

InitUpdate ==
  /\ posts = <<Stored(CreateData(FlatB, "u1"), 1)>>
  /\ details \in {{}, {[postId |-> 1] @@ CreateDetailData(FlatB)}}
  /\ conversations = InitConversations
  /\ nextId = 2
  /\ req = [p \in Procs |-> Idle]
  /\ creator = <<"u1">>

NextUpdate ==
  \/ \E u \in Users, id \in 1..2, b \in PatchBodies : UpdatePostFind(1, u, id, b)
  \/ UpdatePostUpsert(1)
  \/ UpdatePostUpdate(1)

SpecUpdate == InitUpdate /\ [][NextUpdate]_vars

(***************************************************************************)
(* Partial update: C11                                                     *)
(***************************************************************************)
\* A value that is given and is a decimal number.
ValidNumber(v) ==
  \/ v.t = "num"
  \/ v.t = "str" /\ v.s # <<>> /\ \A i \in 1..Len(v.s) : IsDigit(v.s[i])

\* The step of slot p that answers an updatePost request with 200.
UpdateSucceeds(p) ==
  /\ req[p].kind = "updatePost" /\ req[p].pc = "update"
  /\ req'[p].pc = "done" /\ req'[p].status = 200

\* C11 as claimed: when an updatePost by the owner succeeds, each numeric
\* field whose value in the body is absent or not a number holds in storage
\* what it held when the request began (price and bedroom stand for the
\* Listing's numeric fields, size for the Detail's).
C11_AbsentOrInvalidUnchanged ==
  [][\A p \in Procs : UpdateSucceeds(p) =>
       LET b == req[p].body
           id == req[p].id
           was == req[p].before
       IN /\ ~ValidNumber(b.price) => posts'[id].price = was.price
          /\ ~ValidNumber(b.bedroom) => posts'[id].bedroom = was.bedroom
          /\ (~b.postDetail.present \/ ~ValidNumber(b.postDetail.size)) =>
               SizeIn(details', id) = was.size
    ]_vars

(***************************************************************************)
(* getPosts and getPost alone, one request in each behaviour, over stores  *)
(* in which a Listing's userId may be that of no Account: references are   *)
(* by identifier and the store does not enforce them.                      *)
(***************************************************************************)
\* An identifier no Account has.
Gone == "u0"

ReadStores ==
  UNION {{[i \in 1..n |-> Stored(CreateData(f[i][1], f[i][2]), i)] :
          f \in [1..n -> {FlatA, FlatB} \X {"u1", Gone}]} : n \in 0..MaxListed}

ReadQueries == {NoQuery, [NoQuery EXCEPT !.city = Str(<<"b">>)]}

InitRead ==
  /\ posts \in ReadStores
  /\ details = {}
  /\ conversations = InitConversations
  /\ nextId = Len(posts) + 1
  /\ req = [p \in Procs |-> Idle]
  /\ creator = [i \in DOMAIN posts |-> posts[i].userId]

NextRead ==
  \/ \E q \in ReadQueries : req[1].kind = "none" /\ GetPostsPrimary(1, q)
  \/ GetPostsFallback(1)
  \/ \E id \in 1..(MaxListed + 1) : req[1].kind = "none" /\ GetPost(1, id)

SpecRead == InitRead /\ [][NextRead]_vars

(***************************************************************************)
(* Owner info: C12                                                         *)
(***************************************************************************)
\* The stored Listings no Account can be joined to.
Unjoined == {x.id : x \in {y \in Listings : ~Joined(y)}}

\* C12 as claimed: every list and read-one result carries an ownerInfo, the
\* sentinel for a Listing whose Account cannot be joined; getPost of such a
\* Listing, when its lookup does not throw, answers 200 with the Listing and
\* the sentinel.
C12_OwnerInfoAlwaysPresent ==
  \A p \in Procs :
    /\ (req[p].kind \in {"getPosts", "getPost"} /\ req[p].status = 200) =>
         \A i \in 1..Len(req[p].json) :
            /\ req[p].json[i].ownerInfo \in Users \cup {UnknownOwner}
            /\ req[p].json[i].id \in Unjoined =>
                 req[p].json[i].ownerInfo = UnknownOwner
    /\ (req[p].kind = "getPost" /\ req[p].existed = "unjoined"
          /\ req[p].path # "fault") =>
         /\ req[p].status = 200
         /\ Len(req[p].json) = 1
         /\ req[p].json[1].ownerInfo = UnknownOwner

(***************************************************************************)
(* Deletion: C13                                                           *)
(***************************************************************************)
\* The step of slot p that answers a deletePost request with 200.
DeleteSucceeds(p) ==
  /\ req[p].kind = "deletePost" /\ req[p].pc = "delete"
  /\ req'[p].pc = "done" /\ req'[p].status = 200

\* The step removes Listing id and its Detail and nothing else of the two
\* collections.
RemovesListing(id) ==
  /\ id \in DOMAIN posts
  /\ DOMAIN posts' = DOMAIN posts \ {id}
  /\ \A i \in DOMAIN posts' : posts'[i] = posts[i]
  /\ details' = {d \in details : d.postId # id}

C14_AtMostOneListing ==
  \A p \in Procs : req[p].kind = "addPost" => req[p].created <= 1

(***************************************************************************)
(* Detail integrity: C15                                                   *)
(***************************************************************************)
\* C15 as claimed: in every reachable state each stored Detail's postId is
\* the identifier of a stored Listing and no Listing has two Details,
\* however the storage calls of updatePost and deletePost interleave.
C15_DetailRefersToListing ==
  /\ \A d \in details : d.postId \in DOMAIN posts
  /\ \A id \in Ids : Cardinality(DetailOf(id)) <= 1

====
